---- MODULE Spec2Model ----
(***************************************************************************)
(* Model of the algebraic domain runtime of makgora.                       *)
(*                                                                         *)
(* Spec: the immutable Entity base (shared/modeling/entity.py).  A caller  *)
(* holds one entity (ent), invokes a transition on it (call), receives the *)
(* outcome (res) and then either adopts the returned entity as the next    *)
(* receiver or keeps the old one.                                          *)
(*                                                                         *)
(* SpecTx: the writer container Tx (shared/modeling/tx.py).  A caller      *)
(* extends one chain of Tx values with map, bind, append, combine and      *)
(* combine_all.                                                            *)
(*                                                                         *)
(* SpecChain: and_then chains over Result and Maybe                        *)
(* (shared/primitives/result.py, maybe.py), one and_then per step.         *)
(*                                                                         *)
(* SpecConv: chains of the conversions between Result, Maybe and the       *)
(* native nullable value (to_maybe, to_optional, from_optional).           *)
(*                                                                         *)
(* SpecVO: calls of the validators and of SingleValueVO.create             *)
(* (shared/modeling/value_object.py).                                      *)
(*                                                                         *)
(* SpecIO: one IO pipeline (shared/primitives/io.py) being built with map, *)
(* and_then, tap and attempt, and run.                                     *)
(***************************************************************************)
EXTENDS Integers, Sequences, FiniteSets, TLC

VARIABLES
    ent,    \* the entity the caller currently holds (NoEntity before any)
    call,   \* the transition being observed: operation and arguments
    res,    \* what that call produced: Ok(entity), Err(error) or a raise
    pc,     \* "idle": ready to call; "returned": a result is being inspected
    tx_start,   \* the Tx a chain of Tx operations started from
    tx_self,    \* the receiver of the last Tx operation
    tx_call,    \* the last Tx operation and its arguments
    tx_out,     \* the Tx it returned, receiver of the next operation
    ch_self,    \* the receiver of the last and_then
    ch_f,       \* the function given to the last and_then
    ch_out,     \* what the last and_then returned, receiver of the next
    ch_step,    \* how many and_then calls the chain has made
    ch_invoked,  \* the steps whose function was invoked, in order
    cv_vals,    \* the values of a chain of conversions, oldest first
    cv_ops,    \* the conversion that produced each value after the first
    cv_err,    \* the err argument of the last Result.from_optional
    vo_call,    \* the validation call observed: operation and arguments
    vo_out,    \* what that call returned
    vo_ran,    \* the validators it ran, or the value objects it built, in order
    io_self,    \* the IO built so far: its first thunk and the combinators chained on it
    io_runs,    \* how many times run() was called on it
    io_calls,    \* how many times the first thunk was executed
    io_taps,    \* how many times a tap's side function was executed
    io_last    \* what the last run() produced

entityVars == <<ent, call, res, pc>>

txVars == <<tx_start, tx_self, tx_call, tx_out>>

chainVars == <<ch_self, ch_f, ch_out, ch_step, ch_invoked>>

convVars == <<cv_vals, cv_ops, cv_err>>

voVars == <<vo_call, vo_out, vo_ran>>

ioVars == <<io_self, io_runs, io_calls, io_taps, io_last>>

vars == <<entityVars, txVars, chainVars, convVars, voVars, ioVars>>

----------------------------------------------------------------------------
(* Bounds of the model *)

MaxTime == 2        \* instants are 0..MaxTime
MaxVersion == 3     \* no transition is tried that would pass this version
MaxChanges == 2     \* at most this many keyword arguments in update(**changes)

Ids == {"u1", "u2"}             \* UUIDs
Titles == {"hello", "world"}    \* values of the domain fields

----------------------------------------------------------------------------
(* datetime: an instant t on the UTC line, a tzinfo that is or is not      *)
(* None, and a utcoffset() that is or is not None.  A datetime without     *)
(* tzinfo has no utcoffset.                                                *)

Datetimes ==
    { [t |-> n, tzinfo |-> z, utcoffset |-> o] :
        n \in 0..MaxTime,
        z \in BOOLEAN,
        o \in BOOLEAN } \ { d \in [t : 0..MaxTime, tzinfo : {FALSE}, utcoffset : {TRUE}] : TRUE }

\* Python's None in a datetime-typed field (archived_at)
None == [t |-> -1, tzinfo |-> FALSE, utcoffset |-> FALSE]

\* the test `now.tzinfo is None or now.utcoffset() is None`, negated
IsAware(dt) == ~(dt.tzinfo = FALSE \/ dt.utcoffset = FALSE)

Aware(n) == [t |-> n, tzinfo |-> TRUE, utcoffset |-> TRUE]

\* absent id argument (id=None) of create
NoId == "None"

----------------------------------------------------------------------------
(* DomainError values *)

NoError == [code |-> "", message |-> "", fields |-> <<>>]

tz_naive_err ==
    [code |-> "timestamp_naive", message |-> "datetime must be timezone-aware", fields |-> <<>>]

order_err ==
    [code |-> "timestamp_order", message |-> "updated_at must be <= now", fields |-> <<>>]

archived_modify_err ==
    [code |-> "archived_entity", message |-> "archived entity cannot be modified", fields |-> <<>>]

\* alphabetical rank of the reserved field names, for sorted(set(fields))
FieldRank(k) ==
    CASE k = "archived_at" -> 1
      [] k = "created_at"  -> 2
      [] k = "id"          -> 3
      [] k = "updated_at"  -> 4
      [] k = "version"     -> 5

RECURSIVE SortedFields(_)
SortedFields(S) ==
    IF S = {} THEN <<>>
    ELSE LET k == CHOOSE x \in S : \A y \in S : FieldRank(x) <= FieldRank(y)
         IN  <<k>> \o SortedFields(S \ {k})

immutable_field_err(fields) ==
    [code |-> "immutable_field", message |-> "immutable fields cannot be changed: ",
     fields |-> SortedFields(fields)]

----------------------------------------------------------------------------
(* Entity types.  Entity is the base dataclass; Post is the subclass of    *)
(* the unit tests, with consumer fields that have no default.              *)

RESERVED_FIELDS == {"id", "version", "created_at", "updated_at", "archived_at"}

EntityFields == {"id", "version", "created_at", "updated_at", "archived_at"}

PostFields == {"title", "body"}

Classes == {"Entity", "Post"}

\* the dataclass fields of a concrete type
FieldsOf(cls) == IF cls = "Post" THEN EntityFields \cup PostFields ELSE EntityFields

\* a keyword no entity type declares
Undeclared == {"bogus"}

FieldNames == EntityFields \cup PostFields \cup Undeclared

NoEntity == [cls |-> "None"]

----------------------------------------------------------------------------
(* Result values, and the escape of an exception from a call *)

Ok(v) == [kind |-> "Ok", value |-> v, error |-> NoError, exc |-> ""]

Err(e) == [kind |-> "Err", value |-> NoEntity, error |-> e, exc |-> ""]

Raised(x) == [kind |-> "Raise", value |-> NoEntity, error |-> NoError, exc |-> x]

NoResult == [kind |-> "None", value |-> NoEntity, error |-> NoError, exc |-> ""]

----------------------------------------------------------------------------
(* dataclasses.replace(obj, **changes): builds obj.__class__ from the      *)
(* fields of obj overridden by changes; the constructor rejects a keyword  *)
(* that is not a field of the class with TypeError.                        *)

replace_raises(obj, changes) == ~(DOMAIN changes \subseteq FieldsOf(obj.cls))

replace(obj, changes) == changes @@ obj

\* `self.updated_at > now`: comparing an aware with a naive datetime raises
gt_raises(a, b) == IsAware(a) # IsAware(b)

----------------------------------------------------------------------------
(* Entity.create(now, id=None), called on the class cls; uuid4 is the      *)
(* identifier uuid4() would draw.                                          *)

\* mutant: the caller's id is dropped and a fresh one is always drawn
create_freshId(cls, now, id, uuid4) ==
    IF now.tzinfo = FALSE \/ now.utcoffset = FALSE THEN Err(tz_naive_err)
    ELSE IF FieldsOf(cls) # EntityFields THEN Raised("TypeError")
    ELSE Ok([cls |-> cls, id |-> uuid4, version |-> 1,
             created_at |-> now, updated_at |-> now, archived_at |-> None])

\* mutant: only tzinfo is tested, a tzinfo whose utcoffset() is None passes
create_tzinfoOnly(cls, now, id, uuid4) ==
    IF now.tzinfo = FALSE THEN Err(tz_naive_err)
    ELSE IF FieldsOf(cls) # EntityFields THEN Raised("TypeError")
    ELSE Ok([cls |-> cls, id |-> IF id # NoId THEN id ELSE uuid4, version |-> 1,
             created_at |-> now, updated_at |-> now, archived_at |-> None])

create(cls, now, id, uuid4) ==
    IF now.tzinfo = FALSE \/ now.utcoffset = FALSE THEN Err(tz_naive_err)
    ELSE IF FieldsOf(cls) # EntityFields THEN Raised("TypeError")
    ELSE Ok([cls |-> cls,
             id |-> IF id # NoId THEN id ELSE uuid4,
             version |-> 1,
             created_at |-> now,
             updated_at |-> now,
             archived_at |-> None])

\* mutant: the order guard `self.updated_at > now` is missing
update_noOrderGuard(self, now, changes) ==
    IF self.archived_at # None THEN Err(archived_modify_err)
    ELSE IF DOMAIN changes = {} THEN Ok(self)
    ELSE LET bad == {k \in DOMAIN changes : k \in RESERVED_FIELDS} IN
    IF bad # {} THEN Err(immutable_field_err(bad))
    ELSE IF now.tzinfo = FALSE \/ now.utcoffset = FALSE THEN Err(tz_naive_err)
    ELSE LET kw == changes @@ [version |-> self.version + 1, updated_at |-> now] IN
    IF replace_raises(self, kw) THEN Raised("TypeError")
    ELSE Ok(replace(self, kw))

\* mutant: the reserved-field guard is missing; the caller's keywords win
update_noReservedGuard(self, now, changes) ==
    IF self.archived_at # None THEN Err(archived_modify_err)
    ELSE IF DOMAIN changes = {} THEN Ok(self)
    ELSE IF now.tzinfo = FALSE \/ now.utcoffset = FALSE THEN Err(tz_naive_err)
    ELSE IF gt_raises(self.updated_at, now) THEN Raised("TypeError")
    ELSE IF self.updated_at.t > now.t THEN Err(order_err)
    ELSE LET kw == changes @@ [version |-> self.version + 1, updated_at |-> now] IN
    IF replace_raises(self, kw) THEN Raised("TypeError")
    ELSE Ok(replace(self, kw))

\* mutant: the empty-changes no-op is tested before the archive guard
update_noopFirst(self, now, changes) ==
    IF DOMAIN changes = {} THEN Ok(self)
    ELSE IF self.archived_at # None THEN Err(archived_modify_err)
    ELSE LET bad == {k \in DOMAIN changes : k \in RESERVED_FIELDS} IN
    IF bad # {} THEN Err(immutable_field_err(bad))
    ELSE IF now.tzinfo = FALSE \/ now.utcoffset = FALSE THEN Err(tz_naive_err)
    ELSE IF gt_raises(self.updated_at, now) THEN Raised("TypeError")
    ELSE IF self.updated_at.t > now.t THEN Err(order_err)
    ELSE LET kw == changes @@ [version |-> self.version + 1, updated_at |-> now] IN
    IF replace_raises(self, kw) THEN Raised("TypeError")
    ELSE Ok(replace(self, kw))

\* mutant: the time guards run before the empty-changes no-op
update_timeFirst(self, now, changes) ==
    IF self.archived_at # None THEN Err(archived_modify_err)
    ELSE IF now.tzinfo = FALSE \/ now.utcoffset = FALSE THEN Err(tz_naive_err)
    ELSE IF gt_raises(self.updated_at, now) THEN Raised("TypeError")
    ELSE IF self.updated_at.t > now.t THEN Err(order_err)
    ELSE IF DOMAIN changes = {} THEN Ok(self)
    ELSE LET bad == {k \in DOMAIN changes : k \in RESERVED_FIELDS} IN
    IF bad # {} THEN Err(immutable_field_err(bad))
    ELSE LET kw == changes @@ [version |-> self.version + 1, updated_at |-> now] IN
    IF replace_raises(self, kw) THEN Raised("TypeError")
    ELSE Ok(replace(self, kw))

\* mutant: the applied update also stamps created_at with now
update_stampsCreatedAt(self, now, changes) ==
    IF self.archived_at # None THEN Err(archived_modify_err)
    ELSE IF DOMAIN changes = {} THEN Ok(self)
    ELSE LET bad == {k \in DOMAIN changes : k \in RESERVED_FIELDS} IN
    IF bad # {} THEN Err(immutable_field_err(bad))
    ELSE IF now.tzinfo = FALSE \/ now.utcoffset = FALSE THEN Err(tz_naive_err)
    ELSE IF gt_raises(self.updated_at, now) THEN Raised("TypeError")
    ELSE IF self.updated_at.t > now.t THEN Err(order_err)
    ELSE LET kw == changes @@ [version |-> self.version + 1, updated_at |-> now,
                               created_at |-> now] IN
    IF replace_raises(self, kw) THEN Raised("TypeError")
    ELSE Ok(replace(self, kw))

\* mutant: update does not look at archived_at
update_noArchivedGuard(self, now, changes) ==
    IF DOMAIN changes = {} THEN Ok(self)
    ELSE LET bad == {k \in DOMAIN changes : k \in RESERVED_FIELDS} IN
    IF bad # {} THEN Err(immutable_field_err(bad))
    ELSE IF now.tzinfo = FALSE \/ now.utcoffset = FALSE THEN Err(tz_naive_err)
    ELSE IF gt_raises(self.updated_at, now) THEN Raised("TypeError")
    ELSE IF self.updated_at.t > now.t THEN Err(order_err)
    ELSE LET kw == changes @@ [version |-> self.version + 1, updated_at |-> now] IN
    IF replace_raises(self, kw) THEN Raised("TypeError")
    ELSE Ok(replace(self, kw))

(* Entity.update(now, **changes) *)

update(self, now, changes) ==
    IF self.archived_at # None THEN Err(archived_modify_err)
    ELSE IF DOMAIN changes = {} THEN Ok(self)
    ELSE LET bad == {k \in DOMAIN changes : k \in RESERVED_FIELDS} IN
    IF bad # {} THEN Err(immutable_field_err(bad))
    ELSE IF now.tzinfo = FALSE \/ now.utcoffset = FALSE THEN Err(tz_naive_err)
    ELSE IF gt_raises(self.updated_at, now) THEN Raised("TypeError")
    ELSE IF self.updated_at.t > now.t THEN Err(order_err)
    ELSE LET kw == changes @@ [version |-> self.version + 1, updated_at |-> now] IN
    IF replace_raises(self, kw) THEN Raised("TypeError")
    ELSE Ok(replace(self, kw))

\* mutant: archive forgets the version bump
archive_noVersionBump(self, now) ==
    IF self.archived_at # None THEN Ok(self)
    ELSE IF now.tzinfo = FALSE \/ now.utcoffset = FALSE THEN Err(tz_naive_err)
    ELSE IF gt_raises(self.updated_at, now) THEN Raised("TypeError")
    ELSE IF self.updated_at.t > now.t THEN Err(order_err)
    ELSE Ok(replace(self, [archived_at |-> now, updated_at |-> now]))

\* mutant: archive sets archived_at and leaves updated_at as it was
archive_keepsUpdatedAt(self, now) ==
    IF self.archived_at # None THEN Ok(self)
    ELSE IF now.tzinfo = FALSE \/ now.utcoffset = FALSE THEN Err(tz_naive_err)
    ELSE IF gt_raises(self.updated_at, now) THEN Raised("TypeError")
    ELSE IF self.updated_at.t > now.t THEN Err(order_err)
    ELSE Ok(replace(self, [archived_at |-> now, version |-> self.version + 1]))

\* mutant: archive validates now before it looks at the archived state
archive_guardsFirst(self, now) ==
    IF now.tzinfo = FALSE \/ now.utcoffset = FALSE THEN Err(tz_naive_err)
    ELSE IF gt_raises(self.updated_at, now) THEN Raised("TypeError")
    ELSE IF self.updated_at.t > now.t THEN Err(order_err)
    ELSE IF self.archived_at # None THEN Ok(self)
    ELSE Ok(replace(self, [archived_at |-> now, version |-> self.version + 1, updated_at |-> now]))

(* Entity.archive(now) *)

archive(self, now) ==
    IF self.archived_at # None THEN Ok(self)
    ELSE IF now.tzinfo = FALSE \/ now.utcoffset = FALSE THEN Err(tz_naive_err)
    ELSE IF gt_raises(self.updated_at, now) THEN Raised("TypeError")
    ELSE IF self.updated_at.t > now.t THEN Err(order_err)
    ELSE Ok(replace(self, [archived_at |-> now, version |-> self.version + 1, updated_at |-> now]))

\* mutant: unarchive clears archived_at and leaves updated_at as it was
unarchive_keepsUpdatedAt(self, now) ==
    IF self.archived_at = None THEN Ok(self)
    ELSE IF now.tzinfo = FALSE \/ now.utcoffset = FALSE THEN Err(tz_naive_err)
    ELSE IF gt_raises(self.updated_at, now) THEN Raised("TypeError")
    ELSE IF self.updated_at.t > now.t THEN Err(order_err)
    ELSE Ok(replace(self, [archived_at |-> None, version |-> self.version + 1]))

\* mutant: unarchive demands a now later than updated_at
unarchive_strictOrder(self, now) ==
    IF self.archived_at = None THEN Ok(self)
    ELSE IF now.tzinfo = FALSE \/ now.utcoffset = FALSE THEN Err(tz_naive_err)
    ELSE IF gt_raises(self.updated_at, now) THEN Raised("TypeError")
    ELSE IF self.updated_at.t >= now.t THEN Err(order_err)
    ELSE Ok(replace(self, [archived_at |-> None, version |-> self.version + 1, updated_at |-> now]))

(* Entity.unarchive(now) *)

unarchive(self, now) ==
    IF self.archived_at = None THEN Ok(self)
    ELSE IF now.tzinfo = FALSE \/ now.utcoffset = FALSE THEN Err(tz_naive_err)
    ELSE IF gt_raises(self.updated_at, now) THEN Raised("TypeError")
    ELSE IF self.updated_at.t > now.t THEN Err(order_err)
    ELSE Ok(replace(self, [archived_at |-> None, version |-> self.version + 1, updated_at |-> now]))

\* Entity.is_archived
is_archived(self) == self.archived_at # None

\* isinstance(obj, cls): obj's concrete type is cls or a subclass of it
isinstance(obj, cls) == obj.cls = cls \/ (cls = "Entity" /\ obj.cls = "Post")

\* mutant: equality compares every field (the dataclass default, eq=True)
entity_eq_structural(self, other) == other = self

\* Entity.__eq__(self, other)
entity_eq(self, other) == isinstance(other, self.cls) /\ other.id = self.id

\* mutant: a == b always asks the left operand
py_eq_leftFirst(a, b) == entity_eq(a, b)

\* a == b on two entities: Python asks the right operand's __eq__ first when
\* its class is a proper subclass of the left operand's, the left operand's
\* otherwise; Entity.__eq__ always answers (it never returns NotImplemented)
py_eq(a, b) ==
    IF b.cls # a.cls /\ isinstance(b, a.cls) THEN entity_eq(b, a)
    ELSE entity_eq(a, b)

\* hash() of the tuple (class, id): a function of the pair, not injective
HashBuckets == 3

ClassNumber(cls) == IF cls = "Post" THEN 2 ELSE 1

IdNumber(id) == IF id = "u2" THEN 2 ELSE 1

tuple_hash(cls, id) == (31 * ClassNumber(cls) + IdNumber(id)) % HashBuckets

\* Entity.__hash__(self)
entity_hash(self) == tuple_hash(self.cls, self.id)

----------------------------------------------------------------------------
(* Inputs *)

\* the values tried for a keyword of update(**changes)
ChangeValues(k) ==
    CASE k = "id"          -> Ids
      [] k = "version"     -> {1}
      [] k = "created_at"  -> {Aware(0)}
      [] k = "updated_at"  -> {Aware(MaxTime)}
      [] k = "archived_at" -> {None}
      [] OTHER             -> Titles

RECURSIVE ChangesOver(_)
ChangesOver(K) ==
    IF K = {} THEN {<<>>}
    ELSE LET k == CHOOSE x \in K : TRUE
         IN  {(k :> v) @@ f : v \in ChangeValues(k), f \in ChangesOver(K \ {k})}

\* every changes mapping with at most MaxChanges keywords
ChangeSets ==
    UNION {ChangesOver(K) : K \in {S \in SUBSET FieldNames : Cardinality(S) <= MaxChanges}}

\* entities built directly through the constructor, as the equality tests do
Constructed ==
    { [cls |-> "Entity", id |-> i, version |-> v, created_at |-> Aware(c),
       updated_at |-> Aware(u), archived_at |-> a] :
        i \in Ids, v \in 1..MaxVersion, c \in 0..MaxTime, u \in 0..MaxTime,
        a \in {None, Aware(MaxTime)} }
    \cup
    { [cls |-> "Post", id |-> i, version |-> v, created_at |-> Aware(c),
       updated_at |-> Aware(c), archived_at |-> None, title |-> x, body |-> y] :
        i \in Ids, v \in 1..MaxVersion, c \in 0..MaxTime, x \in Titles, y \in Titles }

NoCall == [op |-> "none", cls |-> "None", now |-> None, id |-> NoId, changes |-> <<>>]

\* no transition is tried whose result would pass MaxVersion
WithinBound(r) == r.kind = "Ok" => r.value.version <= MaxVersion

----------------------------------------------------------------------------
(* Tx: a state paired with the tuple of events produced on the way to it   *)

MaxEvents == 3      \* no Tx operation is tried whose log would pass this length
MaxRest == 2        \* at most this many *rest arguments of combine_all

TxStates == {10, 20}            \* state values
Events == {"A", "B"}            \* domain events

\* tx(state, *events)
tx(state, events) == [state |-> state, events |-> events]

\* mutant: map starts from an empty log
Tx_map_dropsEvents(self, f) == [state |-> f[self.state], events |-> <<>>]

\* Tx.map(f)
Tx_map(self, f) == [state |-> f[self.state], events |-> self.events]

\* mutant: bind keeps only the events of f(state)
Tx_bind_dropsLog(self, f) ==
    LET nxt == f[self.state]
    IN  [state |-> nxt.state, events |-> nxt.events]

\* mutant: bind puts the events of f(state) before the receiver's
Tx_bind_prepends(self, f) ==
    LET nxt == f[self.state]
    IN  [state |-> nxt.state, events |-> nxt.events \o self.events]

\* Tx.bind(f)
Tx_bind(self, f) ==
    LET nxt == f[self.state]
    IN  [state |-> nxt.state, events |-> self.events \o nxt.events]

\* Tx.append(*more)
Tx_append(self, more) == [state |-> self.state, events |-> self.events \o more]

\* mutant: combine keeps the receiver's state
Tx_combine_keepsState(self, other) ==
    [state |-> self.state, events |-> self.events \o other.events]

\* Tx.combine(other)
Tx_combine(self, other) == [state |-> other.state, events |-> self.events \o other.events]

\* combine_all(first, *rest): acc = first; for t in rest: acc = acc.combine(t)
RECURSIVE combine_all(_, _)
combine_all(first, rest) ==
    IF rest = <<>> THEN first
    ELSE combine_all(Tx_combine(first, Head(rest)), Tail(rest))

\* tuples of at most n events
EventSeqs(n) == UNION {[1..k -> Events] : k \in 0..n}

\* the Tx values functions return and callers pass in
SmallTx == {tx(s, es) : s \in TxStates, es \in EventSeqs(1)}

\* functions T -> Tx[U] given to bind
KleisliFns == [TxStates -> SmallTx]

\* functions T -> U given to map
StateFns == [TxStates -> TxStates]

\* the *rest arguments of combine_all
RestArgs == UNION {[1..k -> SmallTx] : k \in 0..MaxRest}

NoTx == tx(0, <<>>)

NoTxCall == [op |-> "none", f |-> <<>>, more |-> <<>>, other |-> NoTx, rest |-> <<>>]

TxUnused ==
    /\ tx_start = NoTx
    /\ tx_self = NoTx
    /\ tx_call = NoTxCall
    /\ tx_out = NoTx

\* no operation is tried whose log would pass MaxEvents
TxWithinBound(t) == Len(t.events) <= MaxEvents

----------------------------------------------------------------------------
(* and_then on Result (Ok / Err) and on Maybe (Some / Nothing).  Each      *)
(* and_then yields what it returns (out) and the arguments it invoked f    *)
(* with (calls): one for an invocation, none when f was not invoked.       *)

MaxChain == 3       \* at most this many and_then calls in a chain

Vals == {1, 2}                              \* success payloads
Errors == {tz_naive_err, order_err}         \* failure payloads

\* Some(_value=v) and the Nothing singleton
Some(v) == [kind |-> "Some", value |-> v]

Nothing == [kind |-> "Nothing"]

Results == {Ok(v) : v \in Vals} \cup {Err(e) : e \in Errors}

Maybes == {Some(v) : v \in Vals} \cup {Nothing}

\* functions T -> Result[U, E] and T -> Maybe[U] given to and_then
ResultFns == [Vals -> Results]

MaybeFns == [Vals -> Maybes]

\* Ok.and_then(f)
Ok_and_then(self, f) == [out |-> f[self.value], calls |-> <<self.value>>]

\* mutant: Err.and_then still evaluates f, on the error, and drops its result
Err_and_then_invokes(self, f) == [out |-> Err(self.error), calls |-> <<self.error>>]

\* Err.and_then(f)
Err_and_then(self, f) == [out |-> Err(self.error), calls |-> <<>>]

\* Result.and_then(f), dispatched on the variant
Result_and_then(self, f) ==
    IF self.kind = "Ok" THEN Ok_and_then(self, f) ELSE Err_and_then(self, f)

\* mutant: Some.and_then returns the receiver, as Nothing.and_then does
Some_and_then_returnsSelf(self, f) == [out |-> self, calls |-> <<>>]

\* Some.and_then(f)
Some_and_then(self, f) == [out |-> f[self.value], calls |-> <<self.value>>]

\* _Nothing.and_then(f)
Nothing_and_then(self, f) == [out |-> self, calls |-> <<>>]

\* Maybe.and_then(f), dispatched on the variant
Maybe_and_then(self, f) ==
    IF self.kind = "Some" THEN Some_and_then(self, f) ELSE Nothing_and_then(self, f)

IsResult(r) == r.kind \in {"Ok", "Err"}

IsMaybe(m) == m.kind \in {"Some", "Nothing"}

ChainUnused ==
    /\ ch_self = NoResult
    /\ ch_f = <<>>
    /\ ch_out = NoResult
    /\ ch_step = 0
    /\ ch_invoked = <<>>

----------------------------------------------------------------------------
(* Bridges between Result, Maybe and the native nullable value:            *)
(* Result.to_maybe, Result.from_optional, Maybe.to_optional and            *)
(* Maybe.from_optional.  A native value is None or an int.                 *)

MaxConv == 3        \* at most this many conversions in a chain

PyNone == [kind |-> "NoneType"]

PyInt(n) == [kind |-> "int", value |-> n]

Natives == {PyNone} \cup {PyInt(n) : n \in Vals}

\* value is not None
is_not_None(value) == value.kind # "NoneType"

\* Ok.map(f) and Err.map(f) with f = lambda v: Some(_value=v)
Ok_map_Some(self) == Ok(Some(self.value))

Err_map_Some(self) == Err(self.error)

Result_map_Some(self) ==
    IF self.kind = "Ok" THEN Ok_map_Some(self) ELSE Err_map_Some(self)

\* Ok.unwrap_or(default) and Err.unwrap_or(default)
Ok_unwrap_or(self, default) == self.value

\* mutant: Err.unwrap_or hands out the error instead of the default
Err_unwrap_or_error(self, default) == Some(self.error)

Err_unwrap_or(self, default) == default

Result_unwrap_or(self, default) ==
    IF self.kind = "Ok" THEN Ok_unwrap_or(self, default)
    ELSE Err_unwrap_or(self, default)

\* Result.to_maybe(): self.map(lambda v: Some(_value=v)).unwrap_or(Nothing)
to_maybe(self) == Result_unwrap_or(Result_map_Some(self), Nothing)

\* Result.from_optional(value, err)
Result_from_optional(value, err) ==
    IF is_not_None(value) THEN Ok(value) ELSE Err(err)

\* Some.unwrap_or(default) and _Nothing.unwrap_or(default)
Some_unwrap_or(self, default) == self.value

Nothing_unwrap_or(self, default) == default

Maybe_unwrap_or(self, default) ==
    IF self.kind = "Some" THEN Some_unwrap_or(self, default)
    ELSE Nothing_unwrap_or(self, default)

\* Maybe.to_optional(): self.unwrap_or(None)
to_optional(self) == Maybe_unwrap_or(self, PyNone)

\* Some(value): the keyword-only constructor called with a positional argument
Some_positional(value) == Raised("TypeError")

\* Maybe.from_optional(value): Some(value) if value is not None else Nothing
Maybe_from_optional(value) ==
    IF is_not_None(value) THEN Some_positional(value) ELSE Nothing

\* the values a chain of conversions starts from
ConvStarts ==
    {Ok(v) : v \in Natives} \cup {Err(e) : e \in Errors}
        \cup {Some(v) : v \in Natives} \cup {Nothing} \cup Natives

ConvUnused ==
    /\ cv_vals = <<>>
    /\ cv_ops = <<>>
    /\ cv_err = NoError

----------------------------------------------------------------------------
(* Validators and value objects (shared/modeling/value_object.py).  A      *)
(* string is the tuple of its characters.                                  *)

MaxStr == 4             \* strings of at most this many characters
MaxValidators == 2      \* at most this many validators given to all_of

Whitespace == {" "}

Chars == Whitespace \cup {"a"}

Strings == UNION {[1..k -> Chars] : k \in 0..MaxStr}

\* str.lstrip() and str.rstrip(): drop the whitespace at one end
RECURSIVE lstrip(_)
lstrip(s) ==
    IF s # <<>> /\ Head(s) \in Whitespace THEN lstrip(Tail(s)) ELSE s

RECURSIVE rstrip(_)
rstrip(s) ==
    IF s # <<>> /\ s[Len(s)] \in Whitespace
    THEN rstrip(SubSeq(s, 1, Len(s) - 1)) ELSE s

\* str.strip()
strip(s) == rstrip(lstrip(s))

\* the message of _VO_EMPTY is Korean text in the source
vo_empty_err ==
    [code |-> "vo_empty", message |-> "empty string is not allowed", fields |-> <<>>]

\* the source formats the message with a Korean word for "length"
vo_len_gt_err(limit, got) ==
    [code |-> "vo_len_gt",
     message |-> "len>" \o ToString(limit) \o " (got=" \o ToString(got) \o ")",
     fields |-> <<>>]

\* mutant: the validator hands back the trimmed string
ensure_non_empty_str_trims(s) ==
    IF Len(strip(s)) = 0 THEN Err(vo_empty_err) ELSE Ok(strip(s))

\* ensure_non_empty_str(s)
ensure_non_empty_str(s) ==
    IF Len(strip(s)) = 0 THEN Err(vo_empty_err) ELSE Ok(s)

\* ensure_max_len(n)(s)
ensure_max_len(n, s) ==
    IF Len(s) > n THEN Err(vo_len_gt_err(n, Len(s))) ELSE Ok(s)

\* the validators given to all_of: the two above and the trimming one of
\* _TrimmedNonEmpty
Validators ==
    {[fn |-> "ensure_non_empty_str", n |-> 0],
     [fn |-> "trimmed_non_empty", n |-> 0]}
        \cup {[fn |-> "ensure_max_len", n |-> k] : k \in 1..3}

\* v(value) for a validator v
Validate(v, value) ==
    CASE v.fn = "ensure_non_empty_str" -> ensure_non_empty_str(value)
      [] v.fn = "trimmed_non_empty" -> ensure_non_empty_str(strip(value))
      [] v.fn = "ensure_max_len" -> ensure_max_len(v.n, value)

\* the loop of all_of's _run, from validator i on: what it returns and the
\* validators it calls
RECURSIVE all_of_loop(_, _, _)
all_of_loop(validators, value, i) ==
    IF i > Len(validators) THEN [out |-> Ok(value), ran |-> <<>>]
    ELSE LET r == Validate(validators[i], value)
         IN  IF r.kind = "Err" THEN [out |-> r, ran |-> <<i>>]
             ELSE LET rest == all_of_loop(validators, value, i + 1)
                  IN  [out |-> rest.out, ran |-> <<i>> \o rest.ran]

\* mutant: after the loop the result of the last validator is returned
all_of_returnsLast(validators, value) ==
    LET r == all_of_loop(validators, value, 1)
    IN  IF r.out.kind = "Ok" /\ validators # <<>>
        THEN [r EXCEPT !.out = Validate(validators[Len(validators)], value)]
        ELSE r

\* all_of(*validators)(value)
all_of(validators, value) == all_of_loop(validators, value, 1)

\* the value object classes: the base, _RawInt-like (no _sanitize of its
\* own), _TrimmedNonEmpty and _LenMax3
VOClasses == {"SingleValueVO", "_Raw", "_TrimmedNonEmpty", "_LenMax3"}

\* cls(value=v)
VO(cls, v) == [cls |-> cls, value |-> v]

\* cls._sanitize(v)
sanitize(cls, v) ==
    CASE cls = "_TrimmedNonEmpty" -> ensure_non_empty_str(strip(v))
      [] cls = "_LenMax3" -> ensure_max_len(3, v)
      [] OTHER -> Ok(v)

\* mutant: create wraps the raw value, not the sanitized one
SingleValueVO_create_wrapsRaw(cls, v) ==
    Result_and_then(sanitize(cls, v), [vv \in Strings |-> Ok(VO(cls, v))])

\* SingleValueVO.create(v): what it returns (out) and the values it built
\* an object from (calls)
SingleValueVO_create(cls, v) ==
    Result_and_then(sanitize(cls, v), [vv \in Strings |-> Ok(VO(cls, vv))])

ValidatorSeqs == UNION {[1..k -> Validators] : k \in 0..MaxValidators}

NoVOCall == [op |-> "none", cls |-> "", validators |-> <<>>, value |-> <<>>]

ValidationUnused ==
    /\ vo_call = NoVOCall
    /\ vo_out = NoResult
    /\ vo_ran = <<>>

----------------------------------------------------------------------------
(* IO: a deferred effect (shared/primitives/io.py).  An IO is its first    *)
(* thunk (base) and the combinators chained on it (layers); building one   *)
(* yields the new IO and the number of times the first thunk was executed  *)
(* while building (calls).                                                 *)

MaxLayers == 3      \* at most this many combinators chained on an IO
MaxRuns == 2        \* at most this many run() calls

\* IO.of(10), IO.delay(thunk) with a thunk returning 10, IO.delay(boom)
IOBases == {"of", "delay", "boom"}

\* the exception types given to attempt
ExcTypes == {"ValueError", "KeyError"}

\* ValueError("nope") held as an error payload
ValueError == [code |-> "ValueError", message |-> "nope", fields |-> <<>>]

NoLayer == [op |-> "none", exc |-> ""]

\* IO(thunk=...) for the three first thunks
IO_new(base) == [io |-> [base |-> base, layers |-> <<>>], calls |-> 0]

\* IO.map(f): IO(thunk=lambda: f(self.thunk()))
IO_map(self) ==
    [io |-> [self EXCEPT !.layers = Append(@, [NoLayer EXCEPT !.op = "map"])],
     calls |-> 0]

\* IO.and_then(f): IO(thunk=lambda: f(self.thunk()).run())
IO_and_then(self) ==
    [io |-> [self EXCEPT !.layers = Append(@, [NoLayer EXCEPT !.op = "and_then"])],
     calls |-> 0]

\* mutant: tap evaluates self.thunk() while building the new IO
IO_tap_eager(self) ==
    [io |-> [self EXCEPT !.layers = Append(@, [NoLayer EXCEPT !.op = "tap"])],
     calls |-> 1]

\* IO.tap(side): IO(thunk=_thunk)
IO_tap(self) ==
    [io |-> [self EXCEPT !.layers = Append(@, [NoLayer EXCEPT !.op = "tap"])],
     calls |-> 0]

\* IO.attempt(*exc_types): IO(thunk=_thunk)
IO_attempt(self, exc) ==
    [io |-> [self EXCEPT !.layers = Append(@, [op |-> "attempt", exc |-> exc])],
     calls |-> 0]

\* executing the first thunk: its value or the exception it raises
base_thunk(base) ==
    [val |-> IF base = "boom" THEN Raised("ValueError") ELSE PyInt(10),
     calls |-> 1,
     taps |-> 0]

\* lambda: f(self.thunk()) with f = lambda x: x + 1; inner is self.thunk()
map_thunk(inner) ==
    IF inner.val.kind = "Raise" THEN inner
    ELSE [inner EXCEPT !.val = PyInt(@.value + 1)]

\* lambda: f(self.thunk()).run() with f = lambda x: IO.of(x + 5)
and_then_thunk(inner) ==
    IF inner.val.kind = "Raise" THEN inner
    ELSE [inner EXCEPT !.val = PyInt(@.value + 5)]

\* tap's _thunk: v = self.thunk(); side(v); return v
tap_thunk(inner) ==
    IF inner.val.kind = "Raise" THEN inner
    ELSE [inner EXCEPT !.taps = @ + 1]

\* attempt's _thunk: Ok(value=self.thunk()), or Err(error=e) for a listed e
attempt_thunk(inner, exc) ==
    IF inner.val.kind # "Raise" THEN [inner EXCEPT !.val = Ok(@)]
    ELSE IF inner.val.exc = exc THEN [inner EXCEPT !.val = Err(ValueError)]
    ELSE inner

\* the thunk of the IO made of the first k layers of io
RECURSIVE IO_thunk(_, _)
IO_thunk(io, k) ==
    IF k = 0 THEN base_thunk(io.base)
    ELSE LET inner == IO_thunk(io, k - 1)
             layer == io.layers[k]
         IN  CASE layer.op = "map" -> map_thunk(inner)
               [] layer.op = "and_then" -> and_then_thunk(inner)
               [] layer.op = "tap" -> tap_thunk(inner)
               [] layer.op = "attempt" -> attempt_thunk(inner, layer.exc)

\* IO.run(): self.thunk()
IO_run(self) == IO_thunk(self, Len(self.layers))

\* f is given the int the IO yields: no attempt layer below it
YieldsInt(io) == \A i \in 1..Len(io.layers) : io.layers[i].op # "attempt"

NoIO == [base |-> "none", layers |-> <<>>]

IOUnused ==
    /\ io_self = NoIO
    /\ io_runs = 0
    /\ io_calls = 0
    /\ io_taps = 0
    /\ io_last = NoResult

----------------------------------------------------------------------------
(* The caller *)

EntityUnused ==
    /\ ent = NoEntity
    /\ call = NoCall
    /\ res = NoResult
    /\ pc = "idle"

Init ==
    /\ ent = NoEntity
    /\ call = NoCall
    /\ res = NoResult
    /\ pc = "idle"
    /\ TxUnused
    /\ IOUnused
    /\ ValidationUnused
    /\ ConvUnused
    /\ ChainUnused

\* cls.create(now, id=id)
Create ==
    /\ pc = "idle"
    /\ \E cls \in Classes, now \in Datetimes, id \in Ids \cup {NoId}, uuid4 \in Ids :
          /\ call' = [op |-> "create", cls |-> cls, now |-> now, id |-> id, changes |-> <<>>]
          /\ res' = create(cls, now, id, uuid4)
    /\ pc' = "returned"
    /\ UNCHANGED ent
    /\ UNCHANGED <<txVars, chainVars, convVars, voVars, ioVars>>

\* the `post` fixture: Post(...) built directly at an aware t0
PostFixture ==
    /\ pc = "idle"
    /\ \E t0 \in 0..MaxTime, id \in Ids, title \in Titles, body \in Titles :
          ent' = [cls |-> "Post", id |-> id, version |-> 1,
                  created_at |-> Aware(t0), updated_at |-> Aware(t0),
                  archived_at |-> None, title |-> title, body |-> body]
    /\ UNCHANGED <<call, res, pc>>
    /\ UNCHANGED <<txVars, chainVars, convVars, voVars, ioVars>>

\* ent.update(now, **changes)
Update ==
    /\ pc = "idle"
    /\ ent # NoEntity
    /\ \E now \in Datetimes, changes \in ChangeSets :
          /\ WithinBound(update(ent, now, changes))
          /\ call' = [op |-> "update", cls |-> ent.cls, now |-> now, id |-> NoId, changes |-> changes]
          /\ res' = update(ent, now, changes)
    /\ pc' = "returned"
    /\ UNCHANGED ent
    /\ UNCHANGED <<txVars, chainVars, convVars, voVars, ioVars>>

\* ent.archive(now)
Archive ==
    /\ pc = "idle"
    /\ ent # NoEntity
    /\ \E now \in Datetimes :
          /\ WithinBound(archive(ent, now))
          /\ call' = [op |-> "archive", cls |-> ent.cls, now |-> now, id |-> NoId, changes |-> <<>>]
          /\ res' = archive(ent, now)
    /\ pc' = "returned"
    /\ UNCHANGED ent
    /\ UNCHANGED <<txVars, chainVars, convVars, voVars, ioVars>>

\* ent.unarchive(now)
Unarchive ==
    /\ pc = "idle"
    /\ ent # NoEntity
    /\ \E now \in Datetimes :
          /\ WithinBound(unarchive(ent, now))
          /\ call' = [op |-> "unarchive", cls |-> ent.cls, now |-> now, id |-> NoId, changes |-> <<>>]
          /\ res' = unarchive(ent, now)
    /\ pc' = "returned"
    /\ UNCHANGED ent
    /\ UNCHANGED <<txVars, chainVars, convVars, voVars, ioVars>>

\* the caller unwraps an Ok and goes on with the returned entity
Adopt ==
    /\ pc = "returned"
    /\ res.kind = "Ok"
    /\ ent' = res.value
    /\ call' = NoCall
    /\ res' = NoResult
    /\ pc' = "idle"
    /\ UNCHANGED <<txVars, chainVars, convVars, voVars, ioVars>>

\* the caller drops the outcome and keeps the entity it held
Discard ==
    /\ pc = "returned"
    /\ call' = NoCall
    /\ res' = NoResult
    /\ pc' = "idle"
    /\ UNCHANGED ent
    /\ UNCHANGED <<txVars, chainVars, convVars, voVars, ioVars>>

Next ==
    \/ Create
    \/ PostFixture
    \/ Update
    \/ Archive
    \/ Unarchive
    \/ Adopt
    \/ Discard

Spec == Init /\ [][Next]_vars

----------------------------------------------------------------------------
(* A chain of Tx operations: each one is applied to what the last returned *)

TxInit ==
    /\ EntityUnused
    /\ IOUnused
    /\ ValidationUnused
    /\ ConvUnused
    /\ ChainUnused
    /\ tx_start \in SmallTx
    /\ tx_self = tx_start
    /\ tx_call = NoTxCall
    /\ tx_out = tx_start

\* tx_out.map(f)
TxMap ==
    /\ \E f \in StateFns :
          /\ tx_call' = [NoTxCall EXCEPT !.op = "map", !.f = f]
          /\ tx_out' = Tx_map(tx_out, f)
    /\ tx_self' = tx_out
    /\ UNCHANGED <<tx_start, entityVars, chainVars, convVars, voVars, ioVars>>

\* tx_out.bind(f)
TxBind ==
    /\ \E f \in KleisliFns :
          /\ TxWithinBound(Tx_bind(tx_out, f))
          /\ tx_call' = [NoTxCall EXCEPT !.op = "bind", !.f = f]
          /\ tx_out' = Tx_bind(tx_out, f)
    /\ tx_self' = tx_out
    /\ UNCHANGED <<tx_start, entityVars, chainVars, convVars, voVars, ioVars>>

\* tx_out.append(*more)
TxAppend ==
    /\ \E more \in EventSeqs(2) :
          /\ TxWithinBound(Tx_append(tx_out, more))
          /\ tx_call' = [NoTxCall EXCEPT !.op = "append", !.more = more]
          /\ tx_out' = Tx_append(tx_out, more)
    /\ tx_self' = tx_out
    /\ UNCHANGED <<tx_start, entityVars, chainVars, convVars, voVars, ioVars>>

\* tx_out.combine(other)
TxCombine ==
    /\ \E other \in SmallTx :
          /\ TxWithinBound(Tx_combine(tx_out, other))
          /\ tx_call' = [NoTxCall EXCEPT !.op = "combine", !.other = other]
          /\ tx_out' = Tx_combine(tx_out, other)
    /\ tx_self' = tx_out
    /\ UNCHANGED <<tx_start, entityVars, chainVars, convVars, voVars, ioVars>>

\* combine_all(tx_out, *rest)
TxCombineAll ==
    /\ \E rest \in RestArgs :
          /\ TxWithinBound(combine_all(tx_out, rest))
          /\ tx_call' = [NoTxCall EXCEPT !.op = "combine_all", !.rest = rest]
          /\ tx_out' = combine_all(tx_out, rest)
    /\ tx_self' = tx_out
    /\ UNCHANGED <<tx_start, entityVars, chainVars, convVars, voVars, ioVars>>

TxNext ==
    \/ TxMap
    \/ TxBind
    \/ TxAppend
    \/ TxCombine
    \/ TxCombineAll

SpecTx == TxInit /\ [][TxNext]_vars

----------------------------------------------------------------------------
(* A chain r.and_then(f1).and_then(f2)...: one and_then per step           *)

ChainInit ==
    /\ EntityUnused
    /\ IOUnused
    /\ ValidationUnused
    /\ ConvUnused
    /\ TxUnused
    /\ ch_out \in Results \cup Maybes
    /\ ch_self = ch_out
    /\ ch_f = <<>>
    /\ ch_step = 0
    /\ ch_invoked = <<>>

\* ch_out.and_then(f) on a Result
ResultAndThen ==
    /\ IsResult(ch_out)
    /\ ch_step < MaxChain
    /\ \E f \in ResultFns :
          LET r == Result_and_then(ch_out, f)
          IN  /\ ch_f' = f
              /\ ch_out' = r.out
              /\ ch_invoked' = IF r.calls # <<>> THEN Append(ch_invoked, ch_step + 1)
                                ELSE ch_invoked
    /\ ch_self' = ch_out
    /\ ch_step' = ch_step + 1
    /\ UNCHANGED <<entityVars, txVars, convVars, voVars, ioVars>>

\* ch_out.and_then(f) on a Maybe
MaybeAndThen ==
    /\ IsMaybe(ch_out)
    /\ ch_step < MaxChain
    /\ \E f \in MaybeFns :
          LET r == Maybe_and_then(ch_out, f)
          IN  /\ ch_f' = f
              /\ ch_out' = r.out
              /\ ch_invoked' = IF r.calls # <<>> THEN Append(ch_invoked, ch_step + 1)
                                ELSE ch_invoked
    /\ ch_self' = ch_out
    /\ ch_step' = ch_step + 1
    /\ UNCHANGED <<entityVars, txVars, convVars, voVars, ioVars>>

ChainNext ==
    \/ ResultAndThen
    \/ MaybeAndThen

SpecChain == ChainInit /\ [][ChainNext]_vars

----------------------------------------------------------------------------
(* A chain of conversions: each one takes the value the last one returned  *)

ConvInit ==
    /\ EntityUnused
    /\ IOUnused
    /\ ValidationUnused
    /\ TxUnused
    /\ ChainUnused
    /\ \E v \in ConvStarts : cv_vals = <<v>>
    /\ cv_ops = <<>>
    /\ cv_err = NoError

\* the value the next conversion is applied to
ConvLast == cv_vals[Len(cv_vals)]

ConvReady == Len(cv_ops) < MaxConv /\ ConvLast.kind # "Raise"

\* ConvLast.to_maybe()
ToMaybe ==
    /\ ConvReady
    /\ IsResult(ConvLast)
    /\ cv_vals' = Append(cv_vals, to_maybe(ConvLast))
    /\ cv_ops' = Append(cv_ops, "to_maybe")
    /\ cv_err' = NoError
    /\ UNCHANGED <<entityVars, txVars, chainVars, voVars, ioVars>>

\* Result.from_optional(ConvLast, err)
ResultFromOptional ==
    /\ ConvReady
    /\ \E err \in Errors :
          /\ cv_vals' = Append(cv_vals, Result_from_optional(ConvLast, err))
          /\ cv_err' = err
    /\ cv_ops' = Append(cv_ops, "Result.from_optional")
    /\ UNCHANGED <<entityVars, txVars, chainVars, voVars, ioVars>>

\* ConvLast.to_optional()
ToOptional ==
    /\ ConvReady
    /\ IsMaybe(ConvLast)
    /\ cv_vals' = Append(cv_vals, to_optional(ConvLast))
    /\ cv_ops' = Append(cv_ops, "to_optional")
    /\ cv_err' = NoError
    /\ UNCHANGED <<entityVars, txVars, chainVars, voVars, ioVars>>

\* Maybe.from_optional(ConvLast)
MaybeFromOptional ==
    /\ ConvReady
    /\ cv_vals' = Append(cv_vals, Maybe_from_optional(ConvLast))
    /\ cv_ops' = Append(cv_ops, "Maybe.from_optional")
    /\ cv_err' = NoError
    /\ UNCHANGED <<entityVars, txVars, chainVars, voVars, ioVars>>

ConvNext ==
    \/ ToMaybe
    \/ ResultFromOptional
    \/ ToOptional
    \/ MaybeFromOptional

SpecConv == ConvInit /\ [][ConvNext]_vars

----------------------------------------------------------------------------
(* Calls of the validators and of SingleValueVO.create                     *)

VOInit ==
    /\ EntityUnused
    /\ IOUnused
    /\ TxUnused
    /\ ChainUnused
    /\ ConvUnused
    /\ vo_call = NoVOCall
    /\ vo_out = NoResult
    /\ vo_ran = <<>>

\* ensure_non_empty_str(s)
EnsureNonEmptyStr ==
    /\ vo_call = NoVOCall
    /\ \E s \in Strings :
          /\ vo_call' = [NoVOCall EXCEPT !.op = "ensure_non_empty_str", !.value = s]
          /\ vo_out' = ensure_non_empty_str(s)
    /\ vo_ran' = <<>>
    /\ UNCHANGED <<entityVars, txVars, chainVars, convVars, ioVars>>

\* all_of(*validators)(value)
AllOf ==
    /\ vo_call = NoVOCall
    /\ \E validators \in ValidatorSeqs, value \in Strings :
          LET r == all_of(validators, value)
          IN  /\ vo_call' = [NoVOCall EXCEPT !.op = "all_of",
                                             !.validators = validators,
                                             !.value = value]
              /\ vo_out' = r.out
              /\ vo_ran' = r.ran
    /\ UNCHANGED <<entityVars, txVars, chainVars, convVars, ioVars>>

\* cls.create(v)
VOCreate ==
    /\ vo_call = NoVOCall
    /\ \E cls \in VOClasses, v \in Strings :
          LET r == SingleValueVO_create(cls, v)
          IN  /\ vo_call' = [NoVOCall EXCEPT !.op = "create", !.cls = cls, !.value = v]
              /\ vo_out' = r.out
              /\ vo_ran' = r.calls
    /\ UNCHANGED <<entityVars, txVars, chainVars, convVars, ioVars>>

\* the caller is done with the result and is ready for the next call
VODone ==
    /\ vo_call # NoVOCall
    /\ vo_call' = NoVOCall
    /\ vo_out' = NoResult
    /\ vo_ran' = <<>>
    /\ UNCHANGED <<entityVars, txVars, chainVars, convVars, ioVars>>

VONext ==
    \/ EnsureNonEmptyStr
    \/ AllOf
    \/ VOCreate
    \/ VODone

SpecVO == VOInit /\ [][VONext]_vars

----------------------------------------------------------------------------
(* Building one IO pipeline and running it                                 *)

IOInit ==
    /\ EntityUnused
    /\ TxUnused
    /\ ChainUnused
    /\ ConvUnused
    /\ ValidationUnused
    /\ \E base \in IOBases :
          /\ io_self = IO_new(base).io
          /\ io_calls = IO_new(base).calls
    /\ io_runs = 0
    /\ io_taps = 0
    /\ io_last = NoResult

\* io_self = io_self.map(f)
IOMap ==
    /\ Len(io_self.layers) < MaxLayers
    /\ YieldsInt(io_self)
    /\ io_self' = IO_map(io_self).io
    /\ io_calls' = io_calls + IO_map(io_self).calls
    /\ UNCHANGED <<io_runs, io_taps, io_last>>
    /\ UNCHANGED <<entityVars, txVars, chainVars, convVars, voVars>>

\* io_self = io_self.and_then(f)
IOAndThen ==
    /\ Len(io_self.layers) < MaxLayers
    /\ YieldsInt(io_self)
    /\ io_self' = IO_and_then(io_self).io
    /\ io_calls' = io_calls + IO_and_then(io_self).calls
    /\ UNCHANGED <<io_runs, io_taps, io_last>>
    /\ UNCHANGED <<entityVars, txVars, chainVars, convVars, voVars>>

\* io_self = io_self.tap(side)
IOTap ==
    /\ Len(io_self.layers) < MaxLayers
    /\ io_self' = IO_tap(io_self).io
    /\ io_calls' = io_calls + IO_tap(io_self).calls
    /\ UNCHANGED <<io_runs, io_taps, io_last>>
    /\ UNCHANGED <<entityVars, txVars, chainVars, convVars, voVars>>

\* io_self = io_self.attempt(exc)
IOAttempt ==
    /\ Len(io_self.layers) < MaxLayers
    /\ \E exc \in ExcTypes :
          /\ io_self' = IO_attempt(io_self, exc).io
          /\ io_calls' = io_calls + IO_attempt(io_self, exc).calls
    /\ UNCHANGED <<io_runs, io_taps, io_last>>
    /\ UNCHANGED <<entityVars, txVars, chainVars, convVars, voVars>>

\* io_self.run()
IORun ==
    /\ io_runs < MaxRuns
    /\ LET r == IO_run(io_self)
       IN  /\ io_last' = r.val
           /\ io_calls' = io_calls + r.calls
           /\ io_taps' = io_taps + r.taps
    /\ io_runs' = io_runs + 1
    /\ UNCHANGED io_self
    /\ UNCHANGED <<entityVars, txVars, chainVars, convVars, voVars>>

IONext ==
    \/ IOMap
    \/ IOAndThen
    \/ IOTap
    \/ IOAttempt
    \/ IORun

SpecIO == IOInit /\ [][IONext]_vars

----------------------------------------------------------------------------
(* Vocabulary of the properties *)

Returned(op) == pc = "returned" /\ call.op = op

Active(e) == e.archived_at = None

\* a <= b on aware datetimes
DtLe(a, b) == IsAware(a) /\ IsAware(b) /\ a.t <= b.t

TimeOrdered(e) ==
    /\ DtLe(e.created_at, e.updated_at)
    /\ e.archived_at # None => DtLe(e.updated_at, e.archived_at)

\* the calls that change state when they succeed
Mutating ==
    \/ Returned("update") /\ Active(ent) /\ DOMAIN call.changes # {}
    \/ Returned("archive") /\ Active(ent)
    \/ Returned("unarchive") /\ ~Active(ent)

InstanceCall == Returned("update") \/ Returned("archive") \/ Returned("unarchive")

----------------------------------------------------------------------------
(* C1: every entity held by the caller or returned by a successful         *)
(* transition has created_at <= updated_at and, when archived_at is        *)
(* present, updated_at <= archived_at.                                     *)
C1_TimeOrder ==
    /\ ent # NoEntity => TimeOrdered(ent)
    /\ res.kind = "Ok" => TimeOrdered(res.value)

\* an archived entity that was updated after its creation
C1_Witness ==
    /\ ent # NoEntity
    /\ ent.archived_at # None
    /\ ent.version = 3
    /\ ent.created_at.t < ent.updated_at.t

(* C2: version is 1 after create and never below 1; a successful           *)
(* state-changing update, archive or unarchive returns version + 1; a      *)
(* no-op success returns the receiver's version and a failure returns no   *)
(* entity at all.                                                          *)
C2_Version ==
    /\ ent # NoEntity => ent.version >= 1
    /\ Returned("create") /\ res.kind = "Ok" => res.value.version = 1
    /\ InstanceCall /\ res.kind = "Ok" =>
          res.value.version = IF Mutating THEN ent.version + 1 ELSE ent.version
    /\ pc = "returned" /\ res.kind # "Ok" => res.value = NoEntity

\* an update of a version-2 entity returned version 3
C2_Witness ==
    /\ Returned("update")
    /\ res.kind = "Ok"
    /\ ent.version = 2
    /\ res.value.version = 3

(* C3: update, archive and unarchive return an entity with the receiver's  *)
(* id and concrete type, and an update whose changes name id never         *)
(* succeeds.                                                               *)
C3_IdImmutable ==
    /\ InstanceCall /\ res.kind = "Ok" =>
          res.value.id = ent.id /\ res.value.cls = ent.cls
    /\ Returned("update") /\ "id" \in DOMAIN call.changes => res.kind = "Err"

\* update(now, id=other) on an active entity, with a valid now
C3_Witness ==
    /\ Returned("update")
    /\ Active(ent)
    /\ DOMAIN call.changes = {"id"}
    /\ call.changes["id"] # ent.id
    /\ IsAware(call.now)
    /\ call.now.t >= ent.updated_at.t
    /\ res.error.code = "immutable_field"

(* C4: Entity.create(t) with an aware t succeeds with an Active entity of  *)
(* version 1, created_at = updated_at = t, archived_at none, and the       *)
(* caller's id when one is given.                                          *)
C4_CreateOk ==
    Returned("create") /\ call.cls = "Entity" /\ IsAware(call.now) =>
        /\ res.kind = "Ok"
        /\ res.value.cls = "Entity"
        /\ res.value.version = 1
        /\ res.value.created_at = call.now
        /\ res.value.updated_at = call.now
        /\ res.value.archived_at = None
        /\ ~is_archived(res.value)
        /\ call.id # NoId => res.value.id = call.id
        /\ res.value.id \in Ids

\* create with an aware instant and a caller-supplied id
C4_Witness ==
    /\ Returned("create")
    /\ call.cls = "Entity"
    /\ IsAware(call.now)
    /\ call.id = "u2"
    /\ res.kind = "Ok"

(* C5: create with an instant that lacks timezone information (no tzinfo,  *)
(* or a tzinfo without utcoffset) fails with timestamp_naive and builds    *)
(* no entity.                                                              *)
C5_CreateNaive ==
    Returned("create") /\ ~IsAware(call.now) =>
        /\ res = Err(tz_naive_err)
        /\ res.error.code = "timestamp_naive"
        /\ res.value = NoEntity

\* create with a tzinfo whose utcoffset() is None
C5_Witness ==
    /\ Returned("create")
    /\ call.now.tzinfo = TRUE
    /\ call.now.utcoffset = FALSE
    /\ res.kind = "Err"

(* C6: update on an Archived entity fails with archived_entity for every   *)
(* now and every changes mapping.                                          *)
C6_UpdateArchived ==
    Returned("update") /\ ~Active(ent) =>
        /\ res = Err(archived_modify_err)
        /\ res.error.code = "archived_entity"

\* update of an archived entity with empty changes and a naive, early now
C6_Witness ==
    /\ Returned("update")
    /\ ~Active(ent)
    /\ DOMAIN call.changes = {}
    /\ ~IsAware(call.now)
    /\ call.now.t < ent.updated_at.t
    /\ res.kind = "Err"

(* C7: update with empty changes on an Active entity succeeds and returns  *)
(* the receiver itself, for every now.                                     *)
C7_UpdateNoop ==
    Returned("update") /\ Active(ent) /\ DOMAIN call.changes = {} =>
        res = Ok(ent)

\* the no-op with an aware now earlier than updated_at
C7_Witness ==
    /\ Returned("update")
    /\ Active(ent)
    /\ DOMAIN call.changes = {}
    /\ IsAware(call.now)
    /\ call.now.t < ent.updated_at.t
    /\ res.kind = "Ok"

(* C8: on an Active entity with non-empty changes the outcome of update is *)
(* fixed by the first violated check: a reserved field gives               *)
(* immutable_field, else a naive now gives timestamp_naive, else a now     *)
(* earlier than updated_at gives timestamp_order, else the update          *)
(* succeeds.                                                               *)
C8_UpdateCheckOrder ==
    Returned("update") /\ Active(ent) /\ DOMAIN call.changes # {} =>
        IF DOMAIN call.changes \cap RESERVED_FIELDS # {}
            THEN res.kind = "Err" /\ res.error.code = "immutable_field"
        ELSE IF ~IsAware(call.now)
            THEN res.kind = "Err" /\ res.error.code = "timestamp_naive"
        ELSE IF call.now.t < ent.updated_at.t
            THEN res.kind = "Err" /\ res.error.code = "timestamp_order"
        ELSE res.kind = "Ok"

(* C9: a successful update with non-empty changes returns an entity of the *)
(* same type in which the named fields hold the new values, version is the *)
(* receiver's + 1, updated_at = now and every other field is the           *)
(* receiver's.                                                             *)
C9_UpdateFrame ==
    Returned("update") /\ res.kind = "Ok" /\ DOMAIN call.changes # {} =>
        /\ res.value.cls = ent.cls
        /\ DOMAIN res.value = DOMAIN ent
        /\ \A f \in FieldsOf(ent.cls) :
              res.value[f] = IF f \in DOMAIN call.changes THEN call.changes[f]
                             ELSE IF f = "version" THEN ent.version + 1
                             ELSE IF f = "updated_at" THEN call.now
                             ELSE ent[f]

\* update(title=...) alone: the title changes, the body stays, time moves
C9_Witness ==
    /\ Returned("update")
    /\ res.kind = "Ok"
    /\ DOMAIN call.changes = {"title"}
    /\ call.changes["title"] # ent.title
    /\ res.value.title # ent.title
    /\ res.value.body = ent.body
    /\ call.now.t > ent.updated_at.t
    /\ ent.created_at.t < ent.updated_at.t

(* C10: archive on an Active entity fails with timestamp_naive on a naive  *)
(* now, with timestamp_order on an aware now earlier than updated_at, and  *)
(* otherwise returns the receiver with archived_at = updated_at = now and  *)
(* version + 1, nothing else changed.                                      *)
C10_Archive ==
    Returned("archive") /\ Active(ent) =>
        IF ~IsAware(call.now) THEN res = Err(tz_naive_err)
        ELSE IF call.now.t < ent.updated_at.t THEN res = Err(order_err)
        ELSE /\ res.kind = "Ok"
             /\ is_archived(res.value)
             /\ res.value = [ent EXCEPT !.archived_at = call.now,
                                        !.updated_at = call.now,
                                        !.version = ent.version + 1]

\* archive of an updated Post at a later instant
C10_Witness ==
    /\ Returned("archive")
    /\ Active(ent)
    /\ ent.cls = "Post"
    /\ ent.version = 2
    /\ call.now.t > ent.updated_at.t
    /\ res.kind = "Ok"

(* C11: archive on an Archived entity and unarchive on an Active entity    *)
(* succeed and return the receiver itself, for every now.                  *)
C11_Idempotent ==
    /\ Returned("archive") /\ ~Active(ent) => res = Ok(ent)
    /\ Returned("unarchive") /\ Active(ent) => res = Ok(ent)

\* a second archive with a naive now earlier than updated_at
C11_Witness ==
    /\ Returned("archive")
    /\ ~Active(ent)
    /\ ~IsAware(call.now)
    /\ call.now.t < ent.updated_at.t
    /\ res.kind = "Ok"

(* C12: unarchive on an Archived entity fails with timestamp_naive on a    *)
(* naive now, with timestamp_order on an aware now earlier than            *)
(* updated_at, and otherwise returns the receiver with archived_at none,   *)
(* updated_at = now and version + 1, nothing else changed.                 *)
C12_Unarchive ==
    Returned("unarchive") /\ ~Active(ent) =>
        IF ~IsAware(call.now) THEN res = Err(tz_naive_err)
        ELSE IF call.now.t < ent.updated_at.t THEN res = Err(order_err)
        ELSE /\ res.kind = "Ok"
             /\ ~is_archived(res.value)
             /\ res.value = [ent EXCEPT !.archived_at = None,
                                        !.updated_at = call.now,
                                        !.version = ent.version + 1]

\* unarchive of an archived Post at a later instant
C12_Witness ==
    /\ Returned("unarchive")
    /\ ~Active(ent)
    /\ ent.cls = "Post"
    /\ call.now.t > ent.updated_at.t
    /\ res.kind = "Ok"
    /\ res.value.archived_at = None

(* C13: two entities of the same concrete type with the same id are equal  *)
(* and hash alike whatever their other fields hold; entities with          *)
(* different ids are never equal.                                          *)
C13_EqualityById ==
    pc = "idle" /\ ent # NoEntity =>
        \A other \in Constructed :
            /\ other.cls = ent.cls /\ other.id = ent.id =>
                  /\ entity_eq(ent, other)
                  /\ entity_eq(other, ent)
                  /\ entity_hash(ent) = entity_hash(other)
            /\ other.id # ent.id =>
                  /\ ~entity_eq(ent, other)
                  /\ ~entity_eq(other, ent)

\* an updated Post held next to a Post of the same id with other fields
C13_Witness ==
    /\ pc = "idle"
    /\ ent # NoEntity
    /\ ent.cls = "Post"
    /\ ent.version = 2
    /\ \E other \in Constructed :
          /\ other.cls = "Post"
          /\ other.id = ent.id
          /\ other.version # ent.version
          /\ other.title # ent.title
          /\ entity_eq(ent, other)

(* C14: create, update, archive and unarchive called on Entity, or on an   *)
(* entity it created, return a success or a failure and never raise.       *)
C14_Total ==
    pc = "returned" /\ call.cls = "Entity" => res.kind \in {"Ok", "Err"}

----------------------------------------------------------------------------
(* Vocabulary of the Tx and and_then claims *)

\* s is a prefix of t
IsPrefix(s, t) == Len(s) <= Len(t) /\ SubSeq(t, 1, Len(s)) = s

\* s -> tx(s): the Tx with no events
TxUnit == [s \in TxStates |-> tx(s, <<>>)]

\* the events of every Tx of args, in argument order
RECURSIVE ConcatEvents(_)
ConcatEvents(args) ==
    IF args = <<>> THEN <<>> ELSE Head(args).events \o ConcatEvents(Tail(args))

TxCalled(op) == tx_call.op = op

(* C15: Tx.bind satisfies the monad laws on state and on the whole event   *)
(* sequence: tx(a).bind(f) = f(a); t.bind(s -> tx(s)) = t; and             *)
(* t.bind(f).bind(g) = t.bind(s -> f(s).bind(g)), where t.bind(f) is the   *)
(* bind just made and g ranges over every Tx-returning function.           *)
C15_BindLaws ==
    TxCalled("bind") =>
        /\ tx_self.events = <<>> => tx_out = tx_call.f[tx_self.state]
        /\ tx_call.f = TxUnit => tx_out = tx_self
        /\ \A g \in KleisliFns :
              Tx_bind(tx_out, g) =
                  Tx_bind(tx_self, [s \in TxStates |-> Tx_bind(tx_call.f[s], g)])

\* a bind on a Tx that holds two events, with f adding one and changing the state
C15_Witness ==
    /\ TxCalled("bind")
    /\ Len(tx_self.events) = 2
    /\ Len(tx_call.f[tx_self.state].events) = 1
    /\ tx_out.state # tx_self.state
    /\ tx_call.f # TxUnit

(* C16: the event log is append-only: t.bind(f), t.append(e1..en) and      *)
(* t.combine(other) return a Tx whose events are t.events followed, in     *)
(* order, by f(t.state).events, e1..en, or other.events; along a chain the *)
(* events before a step are a prefix of the events after it, and the       *)
(* events the chain started with are a prefix of all later ones.           *)
C16_AppendOnly ==
    /\ [](/\ TxCalled("bind") =>
                tx_out.events = tx_self.events \o tx_call.f[tx_self.state].events
          /\ TxCalled("append") =>
                tx_out.events = tx_self.events \o tx_call.more
          /\ TxCalled("combine") =>
                tx_out.events = tx_self.events \o tx_call.other.events
          /\ IsPrefix(tx_start.events, tx_out.events))
    /\ [][tx_call'.op \in {"bind", "append", "combine"} =>
              IsPrefix(tx_out.events, tx_out'.events)]_vars

\* a bind that adds an event other than the one already in the log
C16_Witness ==
    /\ TxCalled("bind")
    /\ tx_start.events # <<>>
    /\ Len(tx_self.events) = 2
    /\ Len(tx_out.events) = 3
    /\ tx_out.events[3] # tx_out.events[1]

(* C17: Tx.map(f) returns a Tx whose state is f of the receiver's state    *)
(* and whose events are the receiver's events, same content and order.     *)
C17_Map ==
    TxCalled("map") =>
        /\ tx_out.state = tx_call.f[tx_self.state]
        /\ tx_out.events = tx_self.events

\* a map that changes the state of a Tx holding two different events
C17_Witness ==
    /\ TxCalled("map")
    /\ Len(tx_self.events) = 2
    /\ tx_self.events[1] # tx_self.events[2]
    /\ tx_out.state # tx_self.state

(* C18: combine_all(first, rest...) has the state of its last argument and *)
(* the events of all its arguments concatenated in argument order; with a  *)
(* single argument it returns a Tx equal to that argument.                 *)
C18_CombineAll ==
    TxCalled("combine_all") =>
        LET args == <<tx_self>> \o tx_call.rest
        IN  /\ tx_out.state = args[Len(args)].state
            /\ tx_out.events = ConcatEvents(args)
            /\ tx_call.rest = <<>> => tx_out = tx_self

\* three arguments with an event each, the last with a state of its own
C18_Witness ==
    /\ TxCalled("combine_all")
    /\ Len(tx_call.rest) = 2
    /\ tx_self.events # <<>>
    /\ tx_call.rest[1].events # <<>>
    /\ tx_call.rest[2].events # <<>>
    /\ tx_call.rest[1].events # tx_call.rest[2].events
    /\ tx_call.rest[2].state # tx_self.state
    /\ tx_call.rest[2].state # tx_call.rest[1].state

\* x -> Ok(value=x) and x -> Some(_value=x)
OkUnit == [v \in Vals |-> Ok(v)]

SomeUnit == [v \in Vals |-> Some(v)]

(* C19: in a chain of and_then over Result the functions are invoked left  *)
(* to right and only while every earlier step succeeded: a step on a       *)
(* success invokes its function and returns what it returned; a step on a  *)
(* failure invokes nothing and returns that failure, payload unchanged.    *)
C19_ShortCircuit ==
    /\ [](IsResult(ch_out) =>
            /\ ch_invoked = [i \in 1..Len(ch_invoked) |-> i]
            /\ Len(ch_invoked) <= ch_step
            /\ Len(ch_invoked) < ch_step => ch_out.kind = "Err")
    /\ [][IsResult(ch_out) =>
            /\ ch_out.kind = "Err" =>
                  /\ ch_out' = ch_out
                  /\ ch_invoked' = ch_invoked
            /\ ch_out.kind = "Ok" =>
                  /\ ch_out' = ch_f'[ch_out.value]
                  /\ ch_invoked' = Append(ch_invoked, ch_step')]_vars

\* f1 succeeded, f2 failed, f3 was not invoked
C19_Witness ==
    /\ IsResult(ch_out)
    /\ ch_step = 3
    /\ ch_invoked = <<1, 2>>
    /\ ch_self.kind = "Err"
    /\ ch_out = ch_self
    /\ ch_f[1].kind = "Ok"
    /\ ch_f[2].kind = "Ok"

(* C20: and_then on Result and on Maybe satisfies the monad laws, where    *)
(* m.and_then(f) is the step just made: a wrapped value chained with f     *)
(* gives f(a); chaining the wrapper gives a value equal to the receiver;   *)
(* m.and_then(f).and_then(g) equals m.and_then(x -> f(x).and_then(g)) for  *)
(* every g; m is a success, a failure, a present or an absent receiver.    *)
C20_AndThenLaws ==
    ch_step > 0 =>
        /\ IsResult(ch_self) =>
              /\ ch_self.kind = "Ok" => ch_out = ch_f[ch_self.value]
              /\ ch_f = OkUnit => ch_out = ch_self
              /\ \A g \in ResultFns :
                    Result_and_then(ch_out, g).out =
                        Result_and_then(ch_self,
                            [x \in Vals |-> Result_and_then(ch_f[x], g).out]).out
        /\ IsMaybe(ch_self) =>
              /\ ch_self.kind = "Some" => ch_out = ch_f[ch_self.value]
              /\ ch_f = SomeUnit => ch_out = ch_self
              /\ \A g \in MaybeFns :
                    Maybe_and_then(ch_out, g).out =
                        Maybe_and_then(ch_self,
                            [x \in Vals |-> Maybe_and_then(ch_f[x], g).out]).out

\* a second and_then on a present value, with a function that maps it to
\* another present value and the other value to the absent one
C20_Witness ==
    /\ IsMaybe(ch_out)
    /\ ch_step = 2
    /\ ch_self.kind = "Some"
    /\ ch_out.kind = "Some"
    /\ ch_out # ch_self
    /\ \E v \in Vals : ch_f[v].kind = "Nothing"

----------------------------------------------------------------------------
(* Vocabulary of the conversion claims *)

\* the last conversion made was op
ConvDone(op) == cv_ops # <<>> /\ cv_ops[Len(cv_ops)] = op

\* the value the last conversion was applied to
ConvArg == cv_vals[Len(cv_vals) - 1]

\* the last two conversions made were op1 and then op2
ConvDone2(op1, op2) ==
    /\ Len(cv_ops) >= 2
    /\ cv_ops[Len(cv_ops) - 1] = op1
    /\ cv_ops[Len(cv_ops)] = op2

\* the value the conversion before the last was applied to
ConvArg2 == cv_vals[Len(cv_vals) - 2]

(* C21: Result.to_maybe maps every Ok to a Some holding the same payload   *)
(* and every Err to Nothing, whatever the error: the variant returned      *)
(* depends only on the variant of the receiver.                            *)
C21_ToMaybe ==
    ConvDone("to_maybe") =>
        /\ ConvArg.kind = "Ok" => ConvLast = Some(ConvArg.value)
        /\ ConvArg.kind = "Err" => ConvLast = Nothing

\* an Err built by Result.from_optional(None, err) is turned into Nothing
C21_Witness ==
    /\ ConvDone2("Result.from_optional", "to_maybe")
    /\ ConvArg.kind = "Err"
    /\ ConvArg.error = order_err
    /\ ConvLast = Nothing

(* C22: Result.from_optional(opt, err) returns Ok(v) when opt holds v and  *)
(* Err(err) when opt is absent, so that what to_maybe produced converts    *)
(* back, directly or through to_optional, to a Result of the variant that  *)
(* to_maybe was applied to.                                                *)
C22_FromOptional ==
    ConvDone("Result.from_optional") =>
        /\ ConvArg \in Natives =>
              /\ is_not_None(ConvArg) => ConvLast = Ok(ConvArg)
              /\ ~is_not_None(ConvArg) => ConvLast = Err(cv_err)
        /\ ConvDone2("to_maybe", "Result.from_optional") =>
              ConvLast.kind = ConvArg2.kind
        /\ /\ Len(cv_ops) = 3
           /\ cv_ops[1] = "to_maybe"
           /\ cv_ops[2] = "to_optional"
           => ConvLast.kind = cv_vals[1].kind

(* C23: Maybe.from_optional never fails, and brings back what to_optional  *)
(* was applied to: a Some holding v for Some(v) with v not None, Nothing   *)
(* for Nothing.                                                            *)
C23_MaybeRoundTrip ==
    ConvDone("Maybe.from_optional") =>
        /\ ConvLast.kind # "Raise"
        /\ ConvDone2("to_optional", "Maybe.from_optional") =>
              /\ ConvArg2.kind = "Some" /\ is_not_None(ConvArg2.value) =>
                    ConvLast = ConvArg2
              /\ ConvArg2.kind = "Nothing" => ConvLast = Nothing

----------------------------------------------------------------------------
(* Vocabulary of the validation claims *)

VOCalled(op) == vo_call.op = op

\* every character of s is whitespace (s has no length once trimmed)
Blank(s) == \A i \in 1..Len(s) : s[i] \in Whitespace

\* the validators of the call that fail on its value
Failing == {i \in 1..Len(vo_call.validators) :
                Validate(vo_call.validators[i], vo_call.value).kind = "Err"}

\* the first of them
FirstFailing == CHOOSE i \in Failing : \A j \in Failing : i <= j

(* C24: SingleValueVO.create(raw) calls the class's _sanitize on raw; when *)
(* it returns Ok(v), create returns Ok of one object of the class wrapping *)
(* exactly v; when it returns an Err, create returns an equal Err and      *)
(* builds no object; with the default _sanitize raw is wrapped unchanged.  *)
C24_Create ==
    VOCalled("create") =>
        LET s == sanitize(vo_call.cls, vo_call.value)
        IN  /\ s.kind = "Ok" =>
                  /\ vo_out = Ok(VO(vo_call.cls, s.value))
                  /\ vo_ran = <<s.value>>
            /\ s.kind = "Err" =>
                  /\ vo_out = s
                  /\ vo_ran = <<>>
            /\ vo_call.cls \in {"SingleValueVO", "_Raw"} =>
                  vo_out = Ok(VO(vo_call.cls, vo_call.value))

\* _TrimmedNonEmpty.create(" a ") wraps "a"
C24_Witness ==
    /\ VOCalled("create")
    /\ vo_call.cls = "_TrimmedNonEmpty"
    /\ vo_call.value = <<" ", "a", " ">>
    /\ vo_out = Ok(VO("_TrimmedNonEmpty", <<"a">>))

(* C25 as claimed: all_of(v1..vn)(x) runs the validators left to right on  *)
(* x, returns the first failure and runs no validator after it; when every *)
(* validator succeeds it returns the success of the last validator.        *)
C25_AllOfLast ==
    VOCalled("all_of") =>
        LET n == Len(vo_call.validators)
        IN  /\ Failing # {} =>
                  /\ vo_ran = [i \in 1..FirstFailing |-> i]
                  /\ vo_out = Validate(vo_call.validators[FirstFailing], vo_call.value)
            /\ Failing = {} =>
                  /\ vo_ran = [i \in 1..n |-> i]
                  /\ n > 0 => vo_out = Validate(vo_call.validators[n], vo_call.value)

(* C25 amended: all_of(v1..vn)(x) runs the validators left to right on x,  *)
(* returns the first failure and runs no validator after it; when every    *)
(* validator succeeds, or none is given, it returns Ok(x), the input, and  *)
(* not what the last validator returned.                                   *)
C25_AllOfInput ==
    VOCalled("all_of") =>
        LET n == Len(vo_call.validators)
        IN  /\ Failing # {} =>
                  /\ vo_ran = [i \in 1..FirstFailing |-> i]
                  /\ vo_out = Validate(vo_call.validators[FirstFailing], vo_call.value)
            /\ Failing = {} =>
                  /\ vo_ran = [i \in 1..n |-> i]
                  /\ vo_out = Ok(vo_call.value)

\* the trimming validator comes last and succeeds on " a"
C25_Witness ==
    /\ VOCalled("all_of")
    /\ Len(vo_call.validators) = 2
    /\ vo_call.validators[2].fn = "trimmed_non_empty"
    /\ vo_call.value = <<" ", "a">>
    /\ vo_out.kind = "Ok"
    /\ vo_ran = <<1, 2>>

(* C26: ensure_non_empty_str fails with the fixed vo_empty error exactly   *)
(* when the string has only whitespace, or nothing, in it, and otherwise   *)
(* returns Ok holding the input string, untrimmed.                         *)
C26_NonEmpty ==
    VOCalled("ensure_non_empty_str") =>
        /\ Blank(vo_call.value) => vo_out = Err(vo_empty_err)
        /\ ~Blank(vo_call.value) => vo_out = Ok(vo_call.value)

\* " a " is accepted and handed back with its blanks
C26_Witness ==
    /\ VOCalled("ensure_non_empty_str")
    /\ vo_call.value = <<" ", "a", " ">>
    /\ vo_out = Ok(<<" ", "a", " ">>)

(* C27: a deferred effect is never executed by construction or by          *)
(* composition: building an IO and chaining map, and_then, tap or attempt  *)
(* runs no thunk and no side function; only run() does, and each run()     *)
(* executes the first thunk exactly once more.                             *)
C27_Lazy ==
    /\ [](io_calls = io_runs)
    /\ [][/\ io_self' # io_self =>
                /\ io_calls' = io_calls
                /\ io_taps' = io_taps
                /\ io_last' = io_last
          /\ io_runs' # io_runs =>
                /\ io_runs' = io_runs + 1
                /\ io_calls' = io_calls + 1]_vars

\* a pipeline delay(thunk).tap(side).and_then(f), an attempt chained on it
\* after its first run, then run again
C27_Witness ==
    /\ io_self.base = "delay"
    /\ Len(io_self.layers) = 3
    /\ io_self.layers[1].op = "tap"
    /\ io_self.layers[2].op = "and_then"
    /\ io_self.layers[3].op = "attempt"
    /\ io_runs = 2
    /\ io_calls = 2
    /\ io_taps = 2
    /\ io_last = Ok(PyInt(15))

(* C28: the lifecycle has no terminal state: for every entity the caller   *)
(* can hold and every aware now not earlier than its updated_at, archive   *)
(* takes an Active entity to an Archived one and unarchive takes an        *)
(* Archived entity to an Active one, so each state is left again by one    *)
(* call, however many times it was entered.                                *)
C28_NoTerminalState ==
    ent # NoEntity =>
        /\ \A now \in Datetimes :
              IsAware(now) /\ ent.updated_at.t <= now.t =>
                  /\ Active(ent) =>
                        /\ archive(ent, now).kind = "Ok"
                        /\ ~Active(archive(ent, now).value)
                  /\ ~Active(ent) =>
                        /\ unarchive(ent, now).kind = "Ok"
                        /\ Active(unarchive(ent, now).value)
        /\ /\ pc = "returned"
           /\ call.op \in {"archive", "unarchive"}
           /\ Active(ent) = (call.op = "archive")
           /\ IsAware(call.now)
           /\ ent.updated_at.t <= call.now.t
           => /\ res.kind = "Ok"
              /\ Active(res.value) # Active(ent)

\* an entity that was archived is unarchived at the instant it was archived
C28_Witness ==
    /\ Returned("unarchive")
    /\ ~Active(ent)
    /\ ent.version = 2
    /\ call.now = ent.archived_at
    /\ res.kind = "Ok"
    /\ Active(res.value)
    /\ res.value.version = 3

(* C29: in every Archived entity reached from create through update,       *)
(* archive and unarchive, archived_at equals updated_at, in the entity the *)
(* caller holds and in every entity a transition returns.                  *)
C29_ArchivedAt ==
    /\ ent # NoEntity /\ ~Active(ent) => ent.archived_at = ent.updated_at
    /\ pc = "returned" /\ res.kind = "Ok" /\ ~Active(res.value) =>
          res.value.archived_at = res.value.updated_at

\* update is refused on an entity archived later than it was created
C29_Witness ==
    /\ Returned("update")
    /\ ~Active(ent)
    /\ ent.archived_at.t > ent.created_at.t
    /\ DOMAIN call.changes # {}
    /\ call.now.t > ent.updated_at.t
    /\ IsAware(call.now)
    /\ res = Err(archived_modify_err)

(* C30: a == b on entities holds exactly when they have the same concrete  *)
(* type and the same id: never across types, a subtype instance with the   *)
(* same id included; so a == b exactly when b == a, and entities that      *)
(* compare equal have the same hash.                                       *)
C30_EqualitySymmetric ==
    pc = "idle" /\ ent # NoEntity =>
        \A other \in Constructed :
            /\ py_eq(ent, other) <=> (other.cls = ent.cls /\ other.id = ent.id)
            /\ py_eq(other, ent) <=> py_eq(ent, other)
            /\ py_eq(ent, other) => entity_hash(ent) = entity_hash(other)
            /\ py_eq(other, ent) => entity_hash(ent) = entity_hash(other)

\* a Post held next to a plain Entity built with the same id
C30_Witness ==
    /\ pc = "idle"
    /\ ent # NoEntity
    /\ ent.cls = "Post"
    /\ \E other \in Constructed :
          /\ other.cls = "Entity"
          /\ other.id = ent.id
          /\ entity_eq(other, ent)
          /\ ~py_eq(other, ent)
          /\ ~py_eq(ent, other)

====
